---- MODULE Spec2Model ----
(***************************************************************************)
(* Model of rhsm/huffman.py: the HuffmanNode class, its tree builder       *)
(* (build_tree over a heapq priority queue of (node, count) tuples), the   *)
(* code derivation walk and the rich comparison methods.                   *)
(*                                                                         *)
(* Node objects live in the arena objs; a node is identified by its index  *)
(* in objs, and None is the index 0.                                       *)
(***************************************************************************)
EXTENDS Integers, Sequences, FiniteSets, TLC

\* Largest number of input leaves handed to build_tree.
MaxN == 4
\* Largest weight of an input leaf (weights range over 0..MaxWeight).
MaxWeight == 3

None == 0

VARIABLES
    objs,      \* arena of HuffmanNode objects: objs[i] is the node with identity i
    nodes,     \* build_tree's argument: the list of input node identities
    queue,     \* build_tree's heap: a sequence of <<node, count>> tuples
    counter,   \* next value itertools.count() will yield
    left,      \* build_tree local
    right,     \* build_tree local
    count,     \* build_tree local
    node,      \* combine's local: the node being created
    pc,        \* position inside build_tree
    result,    \* value returned by build_tree (None while it has not returned)
    obs        \* outcome of the latest property access or comparison

vars == <<objs, nodes, queue, counter, left, right, count, node, pc, result, obs>>

----------------------------------------------------------------------------
(* HuffmanNode.__init__ *)
HuffmanNode(weight, value, l, r, parent) ==
    [weight |-> weight, value |-> value, left |-> l, right |-> r, parent |-> parent]

(* Outcomes of a call: a returned value or a raised exception. *)
Ret(v) == [exc |-> "none", val |-> v]
Raise(e, dflt) == [exc |-> e, val |-> dflt]

(* Operands of a comparison: a HuffmanNode of the arena, an object without *)
(* a weight attribute, or an object whose weight is a str.                 *)
NodeOp(i) == [tag |-> "node", id |-> i]
NoWeightOp == [tag |-> "noweight", id |-> 0]
StrWeightOp == [tag |-> "strweight", id |-> 0]

hasattr_weight(x) == x.tag # "noweight"
IntWeight(x) == x.tag = "node"
WeightOf(x) == objs[x.id].weight

(* self.weight <op> other.weight for the ordering operators: the attribute *)
(* lookup other.weight raises AttributeError when it is missing, and int   *)
(* against str raises TypeError.                                           *)
OrderCmp(self, other, op) ==
    IF ~hasattr_weight(other) THEN Raise("AttributeError", FALSE)
    ELSE IF ~IntWeight(other) THEN Raise("TypeError", FALSE)
    ELSE Ret(CASE op = "lt" -> WeightOf(self) < WeightOf(other)
               [] op = "le" -> WeightOf(self) <= WeightOf(other)
               [] op = "gt" -> WeightOf(self) > WeightOf(other)
               [] op = "ge" -> WeightOf(self) >= WeightOf(other))

(* __lt__ with the comparison turned round *)
lt_reversed(self, other) == OrderCmp(self, other, "gt")

lt(self, other) == OrderCmp(self, other, "lt")
le(self, other) == OrderCmp(self, other, "le")
gt(self, other) == OrderCmp(self, other, "gt")
ge(self, other) == OrderCmp(self, other, "ge")

(* __eq__ without the hasattr guard: the missing attribute raises *)
eq_unguarded(self, other) ==
    IF ~hasattr_weight(other) THEN Raise("AttributeError", FALSE)
    ELSE IF ~IntWeight(other) THEN Ret(FALSE)
    ELSE Ret(WeightOf(self) = WeightOf(other))

(* HuffmanNode.__eq__ ; int == str is False in Python *)
eq(self, other) ==
    IF ~hasattr_weight(other) THEN Ret(FALSE)
    ELSE IF ~IntWeight(other) THEN Ret(FALSE)
    ELSE Ret(WeightOf(self) = WeightOf(other))

(* HuffmanNode.__ne__ ; int != str is True in Python *)
ne(self, other) ==
    IF ~hasattr_weight(other) THEN Ret(TRUE)
    ELSE IF ~IntWeight(other) THEN Ret(TRUE)
    ELSE Ret(WeightOf(self) # WeightOf(other))

(* tuple comparison preferring the most recently added of two equal nodes *)
TupleLt_most_recent(a, b) ==
    IF eq(NodeOp(a[1]), NodeOp(b[1])).val
    THEN a[2] > b[2]
    ELSE lt(NodeOp(a[1]), NodeOp(b[1])).val

(* Python's tuple comparison of two queue entries (node, count): the first *)
(* item pair that is not == decides by <.                                  *)
TupleLt(a, b) ==
    IF eq(NodeOp(a[1]), NodeOp(b[1])).val
    THEN a[2] < b[2]
    ELSE lt(NodeOp(a[1]), NodeOp(b[1])).val

----------------------------------------------------------------------------
(* heapq, on 0-based positions of a 1-based sequence *)
At(heap, pos) == heap[pos + 1]
Put(heap, pos, item) == [heap EXCEPT ![pos + 1] = item]

RECURSIVE siftdownLoop(_, _, _, _)
siftdownLoop(heap, startpos, pos, newitem) ==
    IF pos > startpos
    THEN LET parentpos == (pos - 1) \div 2
             parent == At(heap, parentpos)
         IN  IF TupleLt(newitem, parent)
             THEN siftdownLoop(Put(heap, pos, parent), startpos, parentpos, newitem)
             ELSE Put(heap, pos, newitem)
    ELSE Put(heap, pos, newitem)

siftdown(heap, startpos, pos) == siftdownLoop(heap, startpos, pos, At(heap, pos))

RECURSIVE siftupLoop(_, _, _)
siftupLoop(heap, pos, childpos) ==
    IF childpos < Len(heap)
    THEN LET rightpos == childpos + 1
             c == IF rightpos < Len(heap)
                     /\ ~TupleLt(At(heap, childpos), At(heap, rightpos))
                  THEN rightpos ELSE childpos
         IN  siftupLoop(Put(heap, pos, At(heap, c)), c, 2 * c + 1)
    ELSE <<heap, pos>>

siftup(heap, pos) ==
    LET newitem == At(heap, pos)
        r == siftupLoop(heap, pos, 2 * pos + 1)
    IN  siftdown(Put(r[1], r[2], newitem), pos, r[2])

RECURSIVE heapifyLoop(_, _)
heapifyLoop(x, i) == IF i < 0 THEN x ELSE heapifyLoop(siftup(x, i), i - 1)

heapify(x) == heapifyLoop(x, (Len(x) \div 2) - 1)

(* heappop of a non-empty heap: the popped item and the heap left behind *)
heappop(heap) ==
    LET lastelt == heap[Len(heap)]
        rest == SubSeq(heap, 1, Len(heap) - 1)
    IN  IF rest # <<>>
        THEN [item |-> rest[1], heap |-> siftup(Put(rest, 0, lastelt), 0)]
        ELSE [item |-> lastelt, heap |-> rest]

heappush(heap, item) == siftdown(Append(heap, item), 0, Len(heap))

----------------------------------------------------------------------------
(* HuffmanNode.is_leaf *)
is_leaf(self) == objs[self].right = None /\ objs[self].left = None

(* direction_from_parent deciding by == (equal weight) instead of identity *)
direction_from_parent_by_eq(self) ==
    IF objs[self].parent = None THEN Raise("AttributeError", <<>>)
    ELSE IF eq(NodeOp(objs[objs[self].parent].left), NodeOp(self)).val THEN Ret(<<"0">>)
    ELSE Ret(<<"1">>)

(* direction_from_parent defaulting to "1" for a node without a parent *)
direction_from_parent_default(self) ==
    IF objs[self].parent = None THEN Ret(<<"1">>)
    ELSE IF objs[objs[self].parent].left = self THEN Ret(<<"0">>)
    ELSE Ret(<<"1">>)

(* HuffmanNode.direction_from_parent *)
direction_from_parent(self) ==
    IF objs[self].parent = None THEN Raise("AttributeError", <<>>)
    ELSE IF objs[objs[self].parent].left = self THEN Ret(<<"0">>)
    ELSE Ret(<<"1">>)

(* the while loop of HuffmanNode.code *)
RECURSIVE codeLoop(_, _)
codeLoop(next_node, turns) ==
    IF next_node # None
    THEN codeLoop(objs[next_node].parent,
                  IF objs[next_node].parent # None
                  THEN direction_from_parent(next_node).val \o turns
                  ELSE turns)
    ELSE turns

(* code answering the placeholder "0" where the walk collects no turn *)
code_placeholder(self) ==
    IF ~is_leaf(self) THEN Raise("AttributeError", <<>>)
    ELSE IF codeLoop(self, <<>>) = <<>> THEN Ret(<<"0">>)
    ELSE Ret(codeLoop(self, <<>>))

(* HuffmanNode.code *)
code(self) ==
    IF ~is_leaf(self) THEN Raise("AttributeError", <<>>)
    ELSE Ret(codeLoop(self, <<>>))

----------------------------------------------------------------------------
NoObs == [kind |-> "none", op |-> "none", self |-> 0, other |-> NoWeightOp,
          exc |-> "none", bval |-> FALSE, sval |-> <<>>]

Init ==
    \E n \in 0..MaxN :
      \E w \in [1..n -> 0..MaxWeight] :
        /\ objs = [i \in 1..n |-> HuffmanNode(w[i], i, None, None, None)]
        /\ nodes = [i \in 1..n |-> i]
        /\ queue = <<>>
        /\ counter = 0
        /\ left = None
        /\ right = None
        /\ count = -1
        /\ node = None
        /\ pc = "init"
        /\ result = None
        /\ obs = NoObs

(* build_tree, lines 107-110: number the input nodes and heapify *)
BuildStart ==
    /\ pc = "init"
    /\ queue' = heapify([i \in 1..Len(nodes) |-> <<nodes[i], counter + i - 1>>])
    /\ counter' = counter + Len(nodes)
    /\ pc' = "loop"
    /\ obs' = NoObs
    /\ UNCHANGED <<objs, nodes, left, right, count, node, result>>

(* first pop answering None for an empty queue instead of raising *)
PopLeft_sentinel ==
    /\ pc = "loop"
    /\ IF queue = <<>>
       THEN /\ pc' = "done"
            /\ UNCHANGED <<queue, left, count>>
       ELSE /\ left' = heappop(queue).item[1]
            /\ count' = heappop(queue).item[2]
            /\ queue' = heappop(queue).heap
            /\ pc' = "popL"
    /\ UNCHANGED <<objs, nodes, counter, right, node, result, obs>>

(* build_tree, line 115: the first pop; IndexError on an empty queue *)
PopLeft ==
    /\ pc = "loop"
    /\ IF queue = <<>>
       THEN /\ pc' = "error"
            /\ UNCHANGED <<queue, left, count>>
       ELSE /\ left' = heappop(queue).item[1]
            /\ count' = heappop(queue).item[2]
            /\ queue' = heappop(queue).heap
            /\ pc' = "popL"
    /\ UNCHANGED <<objs, nodes, counter, right, node, result, obs>>

(* build_tree, lines 116-120: the second pop; on IndexError return left *)
PopRight ==
    /\ pc = "popL"
    /\ IF queue = <<>>
       THEN /\ result' = left
            /\ pc' = "done"
            /\ UNCHANGED <<queue, right, count>>
       ELSE /\ right' = heappop(queue).item[1]
            /\ count' = heappop(queue).item[2]
            /\ queue' = heappop(queue).heap
            /\ pc' = "popR"
            /\ UNCHANGED result
    /\ UNCHANGED <<objs, nodes, counter, left, node, obs>>

(* combine giving the new node the weight of its left child only *)
CombineNew_left_weight ==
    /\ pc = "popR"
    /\ objs' = Append(objs, HuffmanNode(objs[left].weight, None, left, right, None))
    /\ node' = Len(objs) + 1
    /\ pc' = "made"
    /\ UNCHANGED <<nodes, queue, counter, left, right, count, result, obs>>

(* combine, line 59: the new node *)
CombineNew ==
    /\ pc = "popR"
    /\ objs' = Append(objs, HuffmanNode(objs[left].weight + objs[right].weight,
                                        None, left, right, None))
    /\ node' = Len(objs) + 1
    /\ pc' = "made"
    /\ UNCHANGED <<nodes, queue, counter, left, right, count, result, obs>>

(* combine accumulating the sum into the left child as well *)
SetLeftParent_accumulate ==
    /\ pc = "made"
    /\ objs' = [objs EXCEPT ![left].parent = node,
                            ![left].weight = objs[left].weight + objs[right].weight]
    /\ pc' = "lp"
    /\ UNCHANGED <<nodes, queue, counter, left, right, count, node, result, obs>>

(* combine, line 60 *)
SetLeftParent ==
    /\ pc = "made"
    /\ objs' = [objs EXCEPT ![left].parent = node]
    /\ pc' = "lp"
    /\ UNCHANGED <<nodes, queue, counter, left, right, count, node, result, obs>>

(* combine setting left.parent twice and never right.parent *)
SetRightParent_left_again ==
    /\ pc = "lp"
    /\ objs' = [objs EXCEPT ![left].parent = node]
    /\ pc' = "rp"
    /\ UNCHANGED <<nodes, queue, counter, left, right, count, node, result, obs>>

(* combine, line 61 *)
SetRightParent ==
    /\ pc = "lp"
    /\ objs' = [objs EXCEPT ![right].parent = node]
    /\ pc' = "rp"
    /\ UNCHANGED <<nodes, queue, counter, left, right, count, node, result, obs>>

(* build_tree, line 121: push the combined node with the next count *)
Push ==
    /\ pc = "rp"
    /\ queue' = heappush(queue, <<node, counter>>)
    /\ counter' = counter + 1
    /\ pc' = "loop"
    /\ UNCHANGED <<objs, nodes, left, right, count, node, result, obs>>

(* Property reads and comparisons happen outside build_tree (the program is *)
(* single-threaded); obs keeps the one observation made since the last     *)
(* build step, so a further observation would only overwrite it.           *)
Idle == pc \in {"init", "done", "error"} /\ obs.kind = "none"

(* a caller reads node.code *)
QueryCode ==
    /\ Idle
    /\ \E n \in 1..Len(objs) :
         obs' = [kind |-> "query", op |-> "code", self |-> n, other |-> NoWeightOp,
                 exc |-> code(n).exc, bval |-> FALSE, sval |-> code(n).val]
    /\ UNCHANGED <<objs, nodes, queue, counter, left, right, count, node, pc, result>>

(* a caller reads node.direction_from_parent *)
QueryDirection ==
    /\ Idle
    /\ \E n \in 1..Len(objs) :
         obs' = [kind |-> "query", op |-> "direction_from_parent", self |-> n,
                 other |-> NoWeightOp,
                 exc |-> direction_from_parent(n).exc, bval |-> FALSE,
                 sval |-> direction_from_parent(n).val]
    /\ UNCHANGED <<objs, nodes, queue, counter, left, right, count, node, pc, result>>

CmpOps == {"lt", "le", "gt", "ge", "eq", "ne"}

Cmp(op, self, other) ==
    CASE op = "lt" -> lt(self, other)
      [] op = "le" -> le(self, other)
      [] op = "gt" -> gt(self, other)
      [] op = "ge" -> ge(self, other)
      [] op = "eq" -> eq(self, other)
      [] op = "ne" -> ne(self, other)

(* a caller compares a node with another operand *)
Compare ==
    /\ pc = "init"
    /\ obs.kind = "none"
    /\ \E s \in 1..Len(objs) :
         \E o \in {NodeOp(i) : i \in 1..Len(objs)} \cup {NoWeightOp, StrWeightOp} :
           \E op \in CmpOps :
             obs' = [kind |-> "compare", op |-> op, self |-> s, other |-> o,
                     exc |-> Cmp(op, NodeOp(s), o).exc,
                     bval |-> Cmp(op, NodeOp(s), o).val, sval |-> <<>>]
    /\ UNCHANGED <<objs, nodes, queue, counter, left, right, count, node, pc, result>>

Next ==
    \/ BuildStart
    \/ PopLeft
    \/ PopRight
    \/ CombineNew
    \/ SetLeftParent
    \/ SetRightParent
    \/ Push
    \/ QueryCode
    \/ QueryDirection
    \/ Compare

Spec == Init /\ [][Next]_vars

----------------------------------------------------------------------------
(* Derived notions used by the properties *)

InputIds == {nodes[i] : i \in 1..Len(nodes)}
AllIds == 1..Len(objs)

RECURSIVE Subtree(_)
Subtree(n) ==
    IF n = None THEN {}
    ELSE {n} \cup Subtree(objs[n].left) \cup Subtree(objs[n].right)

RECURSIVE SumW(_)
SumW(S) ==
    IF S = {} THEN 0
    ELSE LET x == CHOOSE y \in S : TRUE IN objs[x].weight + SumW(S \ {x})

IsPrefix(a, b) == Len(a) <= Len(b) /\ SubSeq(b, 1, Len(a)) = a

MinOf(S) == CHOOSE m \in S : \A k \in S : m <= k

(* Least weighted path length of any full binary tree over the leaves S:   *)
(* a tree is one leaf, or a root over two trees that split S.              *)
RECURSIVE MinCost(_)
MinCost(S) ==
    IF Cardinality(S) <= 1 THEN 0
    ELSE LET a == CHOOSE y \in S : TRUE
             splits == {A \in SUBSET S : a \in A /\ A # S}
         IN  SumW(S) + MinOf({MinCost(A) + MinCost(S \ A) : A \in splits})

RECURSIVE WPLSum(_)
WPLSum(S) ==
    IF S = {} THEN 0
    ELSE LET x == CHOOSE y \in S : TRUE
         IN  objs[x].weight * Len(code(x).val) + WPLSum(S \ {x})

----------------------------------------------------------------------------
(* C1: when build_tree returns for n >= 1 distinct input leaves, the tree  *)
(* under the returned root has exactly the n input nodes as leaves and     *)
(* exactly the n-1 nodes created by the call as internal nodes, and the    *)
(* root's weight is the sum of the input weights.                          *)
C1_TreeShape ==
    pc = "done" =>
        LET T == Subtree(result)
            n == Len(nodes)
        IN  /\ n >= 1
            /\ {x \in T : is_leaf(x)} = InputIds
            /\ Cardinality(InputIds) = n
            /\ {x \in T : ~is_leaf(x)} = (n + 1)..Len(objs)
            /\ Len(objs) = 2 * n - 1
            /\ objs[result].weight = SumW(InputIds)

C1_Witness ==
    /\ pc = "done"
    /\ Len(nodes) = 4
    /\ objs[result].weight = 7
    /\ Cardinality(Subtree(result)) = 7

(* C2: after build_tree on two or more leaves every input leaf's code is a *)
(* string over {0,1} and no leaf's code is a prefix of another leaf's.     *)
C2_PrefixFree ==
    (pc = "done" /\ Len(nodes) >= 2) =>
        \A i \in InputIds :
            /\ code(i).exc = "none"
            /\ \A k \in 1..Len(code(i).val) : code(i).val[k] \in {"0", "1"}
            /\ \A j \in InputIds \ {i} : ~IsPrefix(code(i).val, code(j).val)

C2_Witness ==
    /\ pc = "done"
    /\ Len(nodes) = 4
    /\ \E i, j \in InputIds : Len(code(i).val) = 3 /\ Len(code(j).val) = 1
    /\ \E i, j \in InputIds :
          i # j /\ objs[i].weight = objs[j].weight /\ objs[i].parent = objs[j].parent

(* C3: the weighted path length of the returned tree, the sum over the     *)
(* input leaves of weight * len(code), is the least one any full binary    *)
(* tree over the same leaf weights has.                                    *)
C3_MinimalWPL ==
    pc = "done" => WPLSum(InputIds) = MinCost(InputIds)

C3_Witness ==
    /\ pc = "done"
    /\ Len(nodes) = 4
    /\ WPLSum(InputIds) = 13
    /\ \E i \in InputIds : Len(code(i).val) = 3

(* The order the queue is meant to follow: weight, then sequence number *)
KeyLeq(e, f) ==
    \/ objs[e[1]].weight < objs[f[1]].weight
    \/ objs[e[1]].weight = objs[f[1]].weight /\ e[2] <= f[2]

Entries(q) == {q[i] : i \in 1..Len(q)}

MergeOrderStep ==
    /\ (pc = "init" /\ pc' = "loop") =>
          /\ Entries(queue') = {<<nodes[i], i - 1>> : i \in 1..Len(nodes)}
          /\ Len(queue') = Len(nodes)
    /\ (pc = "loop" /\ pc' = "popL") =>
          /\ <<left', count'>> \in Entries(queue)
          /\ \A f \in Entries(queue) : KeyLeq(<<left', count'>>, f)
          /\ Entries(queue') = Entries(queue) \ {<<left', count'>>}
          /\ Len(queue') = Len(queue) - 1
    /\ (pc = "popL" /\ pc' = "popR") =>
          /\ <<right', count'>> \in Entries(queue)
          /\ \A f \in Entries(queue) : KeyLeq(<<right', count'>>, f)
          /\ KeyLeq(<<left, count>>, <<right', count'>>)
          /\ Entries(queue') = Entries(queue) \ {<<right', count'>>}
          /\ Len(queue') = Len(queue) - 1
    /\ (pc = "popR" /\ pc' = "made") =>
          /\ node' = Len(objs) + 1
          /\ objs'[node'].left = left
          /\ objs'[node'].right = right
          /\ objs'[node'].weight = objs[left].weight + objs[right].weight
    /\ (pc = "rp" /\ pc' = "loop") =>
          /\ Entries(queue') = Entries(queue) \cup {<<node, counter>>}
          /\ Len(queue') = Len(queue) + 1
          /\ \A f \in Entries(queue) : f[2] < counter
          /\ count < counter
          /\ counter >= Len(nodes)

(* C4: every merge step pops the two least queue entries under (weight,    *)
(* then sequence number), inputs being numbered 0..n-1 in list order and   *)
(* each merged node getting a fresh larger number; the first popped is the *)
(* left child, the second the right child, the new weight their sum.       *)
C4_MergeOrder == [][MergeOrderStep]_vars

C4_Witness ==
    /\ pc = "popR"
    /\ objs[left].weight = objs[right].weight
    /\ left <= Len(nodes)
    /\ \E e \in Entries(queue) :
          objs[e[1]].weight = objs[right].weight /\ e[1] > Len(nodes)

(* C5: build_tree on one leaf returns that node, creates no node, leaves   *)
(* it without parent and children, and its code is the empty string; no    *)
(* step of that call changes any node.                                     *)
C5_SingleLeaf ==
    /\ []((pc = "done" /\ Len(nodes) = 1) =>
            /\ result = nodes[1]
            /\ Len(objs) = 1
            /\ objs[result].parent = None
            /\ objs[result].left = None
            /\ objs[result].right = None
            /\ code(result).exc = "none"
            /\ code(result).val = <<>>)
    /\ [][Len(nodes) = 1 => objs' = objs]_vars

C5_Witness ==
    /\ pc = "done"
    /\ Len(nodes) = 1
    /\ obs.kind = "query"
    /\ obs.op = "code"
    /\ obs.self = result
    /\ obs.exc = "none"

(* C6: build_tree on the empty list fails at the first pop: it never       *)
(* returns a node or a sentinel and no node exists or changes.             *)
C6_EmptyInput ==
    /\ Len(nodes) = 0 =>
          /\ pc \in {"init", "loop", "error"}
          /\ result = None
          /\ objs = <<>>
          /\ node = None
    /\ pc = "error" => Len(nodes) = 0

C6_Witness == pc = "error" /\ Len(nodes) = 0 /\ objs = <<>>

(* C7: code raises exactly on the nodes that have a child, and             *)
(* direction_from_parent raises exactly on the nodes without a parent; on  *)
(* the other nodes they return a string; no access changes any node.       *)
C7_QueryErrors ==
    /\ []((obs.kind = "query" /\ obs.op = "code") =>
            /\ obs.exc \in {"none", "AttributeError"}
            /\ obs.exc = "AttributeError" <=>
                  (objs[obs.self].left # None \/ objs[obs.self].right # None)
            /\ obs.exc = "none" =>
                  \A k \in 1..Len(obs.sval) : obs.sval[k] \in {"0", "1"})
    /\ []((obs.kind = "query" /\ obs.op = "direction_from_parent") =>
            /\ obs.exc \in {"none", "AttributeError"}
            /\ obs.exc = "AttributeError" <=> objs[obs.self].parent = None
            /\ obs.exc = "none" => obs.sval \in {<<"0">>, <<"1">>})
    /\ [][obs'.kind = "query" => objs' = objs]_vars

C7_Witness ==
    /\ pc = "done"
    /\ Len(nodes) >= 3
    /\ obs.kind = "query"
    /\ obs.op = "direction_from_parent"
    /\ obs.self = result
    /\ obs.exc = "AttributeError"

(* C8 as stated: comparing with an operand that has no weight, or a weight *)
(* that is not comparable, always ends in an error.                        *)
C8_AlwaysError ==
    (obs.kind = "compare" /\ obs.other.tag # "node") => obs.exc # "none"

(* C8, amended: with such an operand the ordering comparisons raise        *)
(* (AttributeError for a missing weight, TypeError for a str weight),      *)
(* while == answers False and != answers True without any error.           *)
C8_OrderingRaisesEqualityAnswers ==
    (obs.kind = "compare" /\ obs.other.tag # "node") =>
        /\ obs.op \in {"lt", "le", "gt", "ge"} =>
              obs.exc = (IF obs.other.tag = "noweight"
                         THEN "AttributeError" ELSE "TypeError")
        /\ obs.op = "eq" => (obs.exc = "none" /\ obs.bval = FALSE)
        /\ obs.op = "ne" => (obs.exc = "none" /\ obs.bval = TRUE)

C8_Witness ==
    /\ obs.kind = "compare"
    /\ obs.other.tag = "noweight"
    /\ obs.op = "eq"
    /\ obs.exc = "none"
    /\ obs.bval = FALSE

(* C9: in every state every node has no child or both, every node with a  *)
(* parent is exactly one of its parent's two children, at each loop head   *)
(* the queue holds exactly the parentless nodes, and after the return the  *)
(* root is the only parentless node.                                       *)
Parentless == {n \in AllIds : objs[n].parent = None}

C9_Structure ==
    /\ \A n \in AllIds :
          /\ (objs[n].left = None) <=> (objs[n].right = None)
          /\ objs[n].parent # None =>
                (objs[objs[n].parent].left = n) # (objs[objs[n].parent].right = n)
    /\ pc = "loop" =>
          /\ {e[1] : e \in Entries(queue)} = Parentless
          /\ Len(queue) = Cardinality(Parentless)
    /\ pc = "done" => Parentless = {result}

C9_Witness ==
    /\ pc = "loop"
    /\ Len(queue) = 2
    /\ Len(objs) = 6
    /\ \E e \in Entries(queue) : e[1] <= Len(nodes)

(* C10: a step changes no existing node's weight, value, left or right;    *)
(* the only field written is parent, of the two nodes being combined, and  *)
(* a parent once set is never set again.                                   *)
FrameStep ==
    /\ Len(objs') >= Len(objs)
    /\ \A n \in AllIds :
          /\ objs'[n].weight = objs[n].weight
          /\ objs'[n].value = objs[n].value
          /\ objs'[n].left = objs[n].left
          /\ objs'[n].right = objs[n].right
          /\ objs[n].parent # None => objs'[n].parent = objs[n].parent
          /\ objs'[n].parent # objs[n].parent =>
                (n \in {left, right} /\ objs'[n].parent = node /\ pc \in {"made", "lp"})

C10_Frame == [][FrameStep]_vars

C10_Witness ==
    /\ pc = "rp"
    /\ left > Len(nodes)
    /\ right <= Len(nodes)
    /\ objs[left].parent = node
    /\ objs[right].parent = node
    /\ Len(objs) >= 6

====
